---- MODULE Spec2Model ----
(***************************************************************************)
(* Model of assignment1/cs231n/classifiers/linear_svm.py: the structured   *)
(* SVM loss in its looped form (svm_loss_naive) and its whole-array form   *)
(* (svm_loss_vectorized).                                                  *)
(*                                                                         *)
(* Numbers.  A float is modelled by an exact rational <<n, d>> in lowest   *)
(* terms with d > 0, plus the three IEEE specials NaN = <<0,0>>,           *)
(* +inf = <<1,0>> and -inf = <<-1,0>>.  Rounding is not modelled: equality *)
(* of two modelled floats is equality in exact arithmetic.                 *)
(*                                                                         *)
(* Arrays.  A 2-D ndarray is [shape |-> <<rows, cols>>, data |-> f] with   *)
(* f a function on 0..rows-1 of functions on 0..cols-1 (the source's       *)
(* 0-based indices); a 1-D ndarray is [shape |-> <<n>>, data |-> f].       *)
(* ndarrays that are passed in, returned or updated in place live in a     *)
(* heap of objects, and the program's names hold references into it, so    *)
(* that aliasing is something the model can get wrong.                     *)
(***************************************************************************)
EXTENDS Integers, Sequences, FiniteSets, TLC

\* ------------------------------------------------------------------ bounds
\* Largest feature dimension D, number of classes C and batch size N drawn.
MaxD == 2
MaxC == 3
MaxN == 2
\* Largest total size drawn: the entries of the arrays a call works on, W
\* (D*C), X and X.T (N*D each) and the score matrix (N*C), together.
MaxCells == 13

\* Entries of W, entries of X, and regularization strengths drawn.
WVals == {<<0, 1>>, <<1, 1>>}
XVals == {<<0 - 1, 1>>, <<0, 1>>, <<1, 1>>}
Regs == {<<0, 1>>, <<1, 2>>}

\* ------------------------------------------------------------------ floats
Abs(n) == IF n < 0 THEN 0 - n ELSE n

Sgn(n) == IF n < 0 THEN 0 - 1 ELSE IF n = 0 THEN 0 ELSE 1

RECURSIVE GCD(_, _)
GCD(a, b) == IF b = 0 THEN a ELSE GCD(b, a % b)

\* The float n/d, d # 0, in lowest terms.
Frac(n, d) ==
    LET s == Sgn(d)
        g == GCD(Abs(n), Abs(d))
    IN  <<(s * n) \div g, (s * d) \div g>>

NaN == <<0, 0>>
Zero == <<0, 1>>
One == <<1, 1>>
Int2F(n) == <<n, 1>>

IsNaN(a) == a[1] = 0 /\ a[2] = 0
IsFinite(a) == a[2] # 0

\* a + b on floats.
float_add(a, b) ==
    IF IsNaN(a) \/ IsNaN(b) THEN NaN
    ELSE IF ~IsFinite(a) /\ ~IsFinite(b) THEN (IF a[1] = b[1] THEN a ELSE NaN)
    ELSE IF ~IsFinite(a) THEN a
    ELSE IF ~IsFinite(b) THEN b
    ELSE Frac(a[1] * b[2] + b[1] * a[2], a[2] * b[2])

float_neg(a) == <<0 - a[1], a[2]>>

\* a - b on floats.
float_sub(a, b) == float_add(a, float_neg(b))

\* a * b on floats.
float_mul(a, b) ==
    IF IsNaN(a) \/ IsNaN(b) THEN NaN
    ELSE IF ~IsFinite(a) \/ ~IsFinite(b)
         THEN <<Sgn(a[1]) * Sgn(b[1]), 0>>
    ELSE Frac(a[1] * b[1], a[2] * b[2])

\* a / b as NumPy divides: no exception, x/0 is nan or +-inf.
np_true_divide(a, b) ==
    IF IsNaN(a) \/ IsNaN(b) THEN NaN
    ELSE IF ~IsFinite(b) THEN (IF IsFinite(a) THEN Zero ELSE NaN)
    ELSE IF b[1] = 0 THEN <<Sgn(a[1]), 0>>
    ELSE IF ~IsFinite(a) THEN <<a[1] * Sgn(b[1]), 0>>
    ELSE Frac(a[1] * b[2], a[2] * b[1])

\* a > b on floats (false when either is nan).
float_gt(a, b) ==
    IF IsNaN(a) \/ IsNaN(b) THEN FALSE
    ELSE IF ~IsFinite(a) /\ ~IsFinite(b) THEN a[1] > b[1]
    ELSE IF ~IsFinite(a) THEN a[1] > 0
    ELSE IF ~IsFinite(b) THEN b[1] < 0
    ELSE a[1] * b[2] > b[1] * a[2]

\* a >= b on floats (false when either is nan).
float_ge(a, b) == float_gt(a, b) \/ (~IsNaN(a) /\ a = b)

\* ------------------------------------------------------------------ arrays
Rows(A) == A.shape[1]
Cols(A) == A.shape[2]

\* Left-to-right sum of f[0], ..., f[n-1].
RECURSIVE SumTo(_, _)
SumTo(f, n) == IF n = 0 THEN Zero ELSE float_add(SumTo(f, n - 1), f[n - 1])

\* np.zeros(shape) for a 2-D shape.
np_zeros(shape) ==
    [shape |-> shape,
     data |-> [r \in 0..(shape[1] - 1) |-> [c \in 0..(shape[2] - 1) |-> Zero]]]

\* A.T
Transpose(A) ==
    [shape |-> <<Cols(A), Rows(A)>>,
     data |-> [c \in 0..(Cols(A) - 1) |-> [r \in 0..(Rows(A) - 1) |-> A.data[r][c]]]]

\* x.dot(A) for a 1-D x of length Rows(A): a 1-D result of length Cols(A).
vec_dot(x, A) ==
    [c \in 0..(Cols(A) - 1) |->
        SumTo([d \in 0..(Rows(A) - 1) |-> float_mul(x[d], A.data[d][c])], Rows(A))]

\* np.dot(A, B) for 2-D A (n x k) and B (k x m).
np_dot(A, B) ==
    [shape |-> <<Rows(A), Cols(B)>>,
     data |-> [r \in 0..(Rows(A) - 1) |-> vec_dot(A.data[r], B)]]

\* np.sum(A) over every entry of a 2-D array.
np_sum(A) ==
    SumTo([r \in 0..(Rows(A) - 1) |-> SumTo(A.data[r], Cols(A))], Rows(A))

\* np.sum(A, axis=1): the 1-D array of row sums.
np_sum_axis1(A) == [r \in 0..(Rows(A) - 1) |-> SumTo(A.data[r], Cols(A))]

\* np.mean(v) of a 1-D array of length n: sum / n, nan for n = 0.
np_mean(v, n) == np_true_divide(SumTo(v, n), Int2F(n))

\* A * B, elementwise, for 2-D arrays of one shape.
Times(A, B) ==
    [shape |-> A.shape,
     data |-> [r \in 0..(Rows(A) - 1) |->
                 [c \in 0..(Cols(A) - 1) |-> float_mul(A.data[r][c], B.data[r][c])]]]

\* A + B, elementwise, for 2-D arrays of one shape.
Plus(A, B) ==
    [shape |-> A.shape,
     data |-> [r \in 0..(Rows(A) - 1) |->
                 [c \in 0..(Cols(A) - 1) |-> float_add(A.data[r][c], B.data[r][c])]]]

\* s * A for a float s.
Scale(s, A) ==
    [shape |-> A.shape,
     data |-> [r \in 0..(Rows(A) - 1) |->
                 [c \in 0..(Cols(A) - 1) |-> float_mul(s, A.data[r][c])]]]

\* A / n for an ndarray A and the int n (NumPy's division).
DivBy(A, n) ==
    [shape |-> A.shape,
     data |-> [r \in 0..(Rows(A) - 1) |->
                 [c \in 0..(Cols(A) - 1) |-> np_true_divide(A.data[r][c], Int2F(n))]]]

\* np.choose(y, choices) with choices the C rows of a C x N array:
\* result[i] = choices[y[i]][i].
np_choose(yd, choices) == [k \in 0..(Cols(choices) - 1) |-> choices.data[yd[k]][k]]

\* np.maximum(a, b) on floats (nan if either is nan).
np_maximum(a, b) ==
    IF IsNaN(a) \/ IsNaN(b) THEN NaN ELSE IF float_gt(b, a) THEN b ELSE a

\* A[:, c] += x for a 1-D x of length Rows(A).
ColIAdd(A, c, x) ==
    [A EXCEPT !.data = [r \in 0..(Rows(A) - 1) |->
                          [A.data[r] EXCEPT ![c] = float_add(@, x[r])]]]

\* A[:, c] -= x for a 1-D x of length Rows(A).
ColISub(A, c, x) ==
    [A EXCEPT !.data = [r \in 0..(Rows(A) - 1) |->
                          [A.data[r] EXCEPT ![c] = float_sub(@, x[r])]]]

\* ------------------------------------------------- statements of both forms
\* reg * np.sum(W * W)
reg_loss(r, Wv) == float_mul(r, np_sum(Times(Wv, Wv)))

\* dW += 2 * reg * W, as the new value of dW.
reg_grad(dWv, r, Wv) ==
    Plus(dWv, Scale(float_mul(Int2F(2), r), Wv))

\* --------------------------------------------------- svm_loss_naive, by parts
\* A slip: the margin delta forgotten.
naive_margin_nodelta(sc, jj, ccs) == float_sub(sc[jj], ccs)

\* margin = scores[j] - correct_class_score + 1
naive_margin(sc, jj, ccs) == float_add(float_sub(sc[jj], ccs), One)

\* A slip: margin >= 0 in place of margin > 0.
naive_body_ge(dWv, lossv, xi, yi, jj, sc, ccs) ==
    IF jj = yi THEN [dW |-> dWv, loss |-> lossv]
    ELSE LET margin == float_add(float_sub(sc[jj], ccs), One)
         IN  IF float_ge(margin, Zero)
             THEN [dW |-> ColISub(ColIAdd(dWv, jj, xi), yi, xi),
                   loss |-> float_add(lossv, margin)]
             ELSE [dW |-> dWv, loss |-> lossv]

\* A slip: loss = margin in place of loss += margin.
naive_body_overwrite(dWv, lossv, xi, yi, jj, sc, ccs) ==
    IF jj = yi THEN [dW |-> dWv, loss |-> lossv]
    ELSE LET margin == float_add(float_sub(sc[jj], ccs), One)
         IN  IF float_gt(margin, Zero)
             THEN [dW |-> ColISub(ColIAdd(dWv, jj, xi), yi, xi),
                   loss |-> margin]
             ELSE [dW |-> dWv, loss |-> lossv]

\* A slip: dW[:, y[i]] -= X[i] left out.
naive_body_noback(dWv, lossv, xi, yi, jj, sc, ccs) ==
    IF jj = yi THEN [dW |-> dWv, loss |-> lossv]
    ELSE LET margin == float_add(float_sub(sc[jj], ccs), One)
         IN  IF float_gt(margin, Zero)
             THEN [dW |-> ColIAdd(dWv, jj, xi),
                   loss |-> float_add(lossv, margin)]
             ELSE [dW |-> dWv, loss |-> lossv]

\* The body of the inner loop for class jj of an example with features xi and
\* label yi: the new (dW, loss).
naive_body(dWv, lossv, xi, yi, jj, sc, ccs) ==
    IF jj = yi THEN [dW |-> dWv, loss |-> lossv]
    ELSE LET margin == naive_margin(sc, jj, ccs)
         IN  IF float_gt(margin, Zero)
             THEN [dW |-> ColISub(ColIAdd(dWv, jj, xi), yi, xi),
                   loss |-> float_add(lossv, margin)]
             ELSE [dW |-> dWv, loss |-> lossv]

\* A slip: a division that never raises.
float_div_never_raises(n) == FALSE

\* loss /= num_train on the Python float 0.0 raises ZeroDivisionError when
\* num_train is 0 (the loops have not run, loss is still the literal 0.0).
float_div_raises(n) == n = 0

\* ---------------------------------------------- svm_loss_vectorized, by parts
\* A slip: np.maximum(0, .) left out.
vec_margins_noclamp(sc, yd) ==
    LET correct == np_choose(yd, Transpose(sc))
    IN  [shape |-> sc.shape,
         data |-> [r \in 0..(Rows(sc) - 1) |->
                     [c \in 0..(Cols(sc) - 1) |->
                        float_sub(float_add(sc.data[r][c], One), correct[r])]]]

\* margins = np.maximum(0, scores + 1 - np.choose(y, scores.T)[:, np.newaxis])
vec_margins(sc, yd) ==
    LET correct == np_choose(yd, Transpose(sc))
    IN  [shape |-> sc.shape,
         data |-> [r \in 0..(Rows(sc) - 1) |->
                     [c \in 0..(Cols(sc) - 1) |->
                        np_maximum(Zero,
                                   float_sub(float_add(sc.data[r][c], One),
                                             correct[r]))]]]

\* A slip: the self term left in the loss.
vec_loss_keep_self(m) == np_mean(np_sum_axis1(m), Rows(m))

\* loss = np.mean(np.sum(margins, axis=1)) - 1
vec_loss(m) == float_sub(np_mean(np_sum_axis1(m), Rows(m)), One)

\* A slip: margins[margins >= 0] = 1.
vec_binarize_ge(m) ==
    [shape |-> m.shape,
     data |-> [r \in 0..(Rows(m) - 1) |->
                 [c \in 0..(Cols(m) - 1) |->
                    IF float_ge(m.data[r][c], Zero) THEN One ELSE m.data[r][c]]]]

\* margins[margins > 0] = 1
vec_binarize(m) ==
    [shape |-> m.shape,
     data |-> [r \in 0..(Rows(m) - 1) |->
                 [c \in 0..(Cols(m) - 1) |->
                    IF float_gt(m.data[r][c], Zero) THEN One ELSE m.data[r][c]]]]

\* A slip: margins[np.arange(num_train), y] = -num_margins_gtzero.
vec_adjust_assign(m, yd, cnt) ==
    [m EXCEPT !.data = [r \in 0..(Rows(m) - 1) |->
                          [m.data[r] EXCEPT ![yd[r]] = float_neg(cnt[r])]]]

\* margins[np.arange(num_train), y] -= num_margins_gtzero
vec_adjust(m, yd, cnt) ==
    [m EXCEPT !.data = [r \in 0..(Rows(m) - 1) |->
                          [m.data[r] EXCEPT ![yd[r]] = float_sub(@, cnt[r])]]]

\* ------------------------------------------------------------------- state
VARIABLES
    heap,                 \* object id -> ndarray
    W, X, y, reg,         \* the caller's arguments: three references and a float
    pc,                   \* "idle" (in the caller) or the statement to run next
    loss, dW,             \* locals of the running call: a float, a reference
    num_classes, num_train,
    i, j,                 \* svm_loss_naive: loop indices
    scores,               \* naive: 1-D array value; vectorized: 2-D array value
    correct_class_score,  \* svm_loss_naive
    margins,              \* svm_loss_vectorized: a reference
    num_margins_gtzero,   \* svm_loss_vectorized: 1-D array value
    nret, vret,           \* what the caller got from each function
    perm,                 \* the caller's reordering of the examples
    X0, y0,               \* the caller's examples before it reordered them
    nret0, vret0          \* what the caller got before it reordered them

vars == <<heap, W, X, y, reg, pc, loss, dW, num_classes, num_train, i, j,
          scores, correct_class_score, margins, num_margins_gtzero, nret, vret,
          perm, X0, y0, nret0, vret0>>

args == <<W, X, y, reg>>
caller == <<perm, X0, y0, nret0, vret0>>

\* A local that is not bound: a float or array value, an int or reference.
Unbound == <<>>
NoRef == 0 - 1

\* What the caller holds before a call, after a return and after an exception.
NoResult == [status |-> "none", loss |-> NaN, dW |-> NoRef]

\* The id of the next object created.
NewId(h) == Cardinality(DOMAIN h)

\* A slip: dW = W, no new array.
zeros_like_alias(h, w) == [ref |-> w, heap |-> h]

\* dW = np.zeros(W.shape): the reference bound to dW and the heap after it.
zeros_like(h, w) ==
    [ref |-> NewId(h), heap |-> h @@ (NewId(h) :> np_zeros(h[w].shape))]

\* The frame of a call is dropped when it ends.
PopFrame ==
    /\ loss' = Unbound /\ dW' = NoRef
    /\ num_classes' = NoRef /\ num_train' = NoRef
    /\ i' = NoRef /\ j' = NoRef
    /\ scores' = Unbound /\ correct_class_score' = Unbound
    /\ margins' = NoRef /\ num_margins_gtzero' = Unbound

\* The reorderings of n examples: the bijections on 0..n-1.
Perms(n) ==
    {f \in [0..(n - 1) -> 0..(n - 1)] :
        \A a, b \in 0..(n - 1) : f[a] = f[b] => a = b}

Identity(n) == [k \in 0..(n - 1) |-> k]

\* A[p] for an index array p: row r of the result is row p[r] of A.
Take2(A, p) == [A EXCEPT !.data = [r \in 0..(Rows(A) - 1) |-> A.data[p[r]]]]

\* v[p] for a 1-D array v.
Take1(v, p) == [v EXCEPT !.data = [r \in 0..(v.shape[1] - 1) |-> v.data[p[r]]]]

Init ==
    \E D \in 1..MaxD, C \in 1..MaxC, N \in 0..MaxN :
        /\ D * C + 2 * N * D + N * C <= MaxCells
        /\ \E Wd \in [0..(D - 1) -> [0..(C - 1) -> WVals]],
              Xd \in [0..(N - 1) -> [0..(D - 1) -> XVals]],
              yd \in [0..(N - 1) -> 0..(C - 1)] :
              heap = (0 :> [shape |-> <<D, C>>, data |-> Wd])
                     @@ (1 :> [shape |-> <<N, D>>, data |-> Xd])
                     @@ (2 :> [shape |-> <<N>>, data |-> yd])
        /\ W = 0 /\ X = 1 /\ y = 2
        /\ reg \in Regs
        /\ pc = "idle"
        /\ loss = Unbound /\ dW = NoRef
        /\ num_classes = NoRef /\ num_train = NoRef
        /\ i = NoRef /\ j = NoRef
        /\ scores = Unbound /\ correct_class_score = Unbound
        /\ margins = NoRef /\ num_margins_gtzero = Unbound
        /\ nret = NoResult /\ vret = NoResult
        /\ perm = Unbound /\ X0 = NoRef /\ y0 = NoRef
        /\ nret0 = NoResult /\ vret0 = NoResult

\* ----------------------------------------------------------- svm_loss_naive
\* Lines 22-27: the call binds dW, num_classes, num_train and loss.
CallNaive ==
    /\ pc = "idle" /\ nret.status = "none"
    /\ LET z == zeros_like(heap, W)
       IN  heap' = z.heap /\ dW' = z.ref
    /\ num_classes' = Cols(heap[W])
    /\ num_train' = Rows(heap[X])
    /\ loss' = Zero
    /\ i' = 0
    /\ pc' = "n_for_i"
    /\ UNCHANGED <<args, j, scores, correct_class_score, margins,
                   num_margins_gtzero, nret, vret, caller>>

\* Lines 28-30: the outer loop's test, and the scores of example i.
NaiveForI ==
    /\ pc = "n_for_i"
    /\ IF i < num_train
       THEN /\ scores' = vec_dot(heap[X].data[i], heap[W])
            /\ correct_class_score' = vec_dot(heap[X].data[i], heap[W])[heap[y].data[i]]
            /\ j' = 0
            /\ pc' = "n_for_j"
       ELSE /\ pc' = "n_mean"
            /\ UNCHANGED <<scores, correct_class_score, j>>
    /\ UNCHANGED <<heap, args, loss, dW, num_classes, num_train, i, margins,
                   num_margins_gtzero, nret, vret, caller>>

\* Lines 31-38: the inner loop's test and one pass of its body.
NaiveForJ ==
    /\ pc = "n_for_j"
    /\ IF j < num_classes
       THEN LET b == naive_body(heap[dW], loss, heap[X].data[i], heap[y].data[i],
                                j, scores, correct_class_score)
            IN  /\ heap' = [heap EXCEPT ![dW] = b.dW]
                /\ loss' = b.loss
                /\ j' = j + 1
                /\ UNCHANGED <<i, pc>>
       ELSE /\ i' = i + 1
            /\ pc' = "n_for_i"
            /\ UNCHANGED <<heap, loss, j>>
    /\ UNCHANGED <<args, dW, num_classes, num_train, scores, correct_class_score,
                   margins, num_margins_gtzero, nret, vret, caller>>

\* Lines 42-43: loss /= num_train; dW /= num_train.
NaiveMean ==
    /\ pc = "n_mean"
    /\ IF float_div_raises(num_train)
       THEN /\ nret' = [NoResult EXCEPT !.status = "ZeroDivisionError"]
            /\ pc' = "idle"
            /\ PopFrame
            /\ UNCHANGED heap
       ELSE /\ loss' = np_true_divide(loss, Int2F(num_train))
            /\ heap' = [heap EXCEPT ![dW] = DivBy(@, num_train)]
            /\ pc' = "n_reg"
            /\ UNCHANGED <<nret, dW, num_classes, num_train, i, j, scores,
                           correct_class_score, margins, num_margins_gtzero>>
    /\ UNCHANGED <<args, vret, caller>>

\* Lines 46-47: the regularization terms.
NaiveReg ==
    /\ pc = "n_reg"
    /\ loss' = float_add(loss, reg_loss(reg, heap[W]))
    /\ heap' = [heap EXCEPT ![dW] = reg_grad(@, reg, heap[W])]
    /\ pc' = "n_return"
    /\ UNCHANGED <<args, dW, num_classes, num_train, i, j, scores,
                   correct_class_score, margins, num_margins_gtzero, nret, vret, caller>>

\* Line 59: return loss, dW.
NaiveReturn ==
    /\ pc = "n_return"
    /\ nret' = [status |-> "returned", loss |-> loss, dW |-> dW]
    /\ pc' = "idle"
    /\ PopFrame
    /\ UNCHANGED <<heap, args, vret, caller>>

\* ------------------------------------------------------ svm_loss_vectorized
\* Lines 68-71: the call binds loss, dW, num_classes and num_train.  The caller
\* calls svm_loss_naive first and svm_loss_vectorized on the same arguments next.
CallVectorized ==
    /\ pc = "idle" /\ nret.status # "none" /\ vret.status = "none"
    /\ loss' = Zero
    /\ LET z == zeros_like(heap, W)
       IN  heap' = z.heap /\ dW' = z.ref
    /\ num_classes' = Cols(heap[W])
    /\ num_train' = Rows(heap[X])
    /\ pc' = "v_scores"
    /\ UNCHANGED <<args, i, j, scores, correct_class_score, margins,
                   num_margins_gtzero, nret, vret, caller>>

\* Line 78: scores = np.dot(X, W).
VecScores ==
    /\ pc = "v_scores"
    /\ scores' = np_dot(heap[X], heap[W])
    /\ pc' = "v_margins"
    /\ UNCHANGED <<heap, args, loss, dW, num_classes, num_train, i, j,
                   correct_class_score, margins, num_margins_gtzero, nret, vret, caller>>

\* Line 79: margins is a new array.
VecMargins ==
    /\ pc = "v_margins"
    /\ margins' = NewId(heap)
    /\ heap' = heap @@ (NewId(heap) :> vec_margins(scores, heap[y].data))
    /\ pc' = "v_loss"
    /\ UNCHANGED <<args, loss, dW, num_classes, num_train, i, j, scores,
                   correct_class_score, num_margins_gtzero, nret, vret, caller>>

\* Line 80: loss = np.mean(np.sum(margins, axis=1)) - 1.
VecLoss ==
    /\ pc = "v_loss"
    /\ loss' = vec_loss(heap[margins])
    /\ pc' = "v_reg"
    /\ UNCHANGED <<heap, args, dW, num_classes, num_train, i, j, scores,
                   correct_class_score, margins, num_margins_gtzero, nret, vret, caller>>

\* Line 82: loss += reg * np.sum(W * W).
VecReg ==
    /\ pc = "v_reg"
    /\ loss' = float_add(loss, reg_loss(reg, heap[W]))
    /\ pc' = "v_binarize"
    /\ UNCHANGED <<heap, args, dW, num_classes, num_train, i, j, scores,
                   correct_class_score, margins, num_margins_gtzero, nret, vret, caller>>

\* Line 98: margins[margins > 0] = 1, in place.
VecBinarize ==
    /\ pc = "v_binarize"
    /\ heap' = [heap EXCEPT ![margins] = vec_binarize(@)]
    /\ pc' = "v_count"
    /\ UNCHANGED <<args, loss, dW, num_classes, num_train, i, j, scores,
                   correct_class_score, margins, num_margins_gtzero, nret, vret, caller>>

\* Line 99: num_margins_gtzero = np.sum(margins, axis=1).
VecCount ==
    /\ pc = "v_count"
    /\ num_margins_gtzero' = np_sum_axis1(heap[margins])
    /\ pc' = "v_adjust"
    /\ UNCHANGED <<heap, args, loss, dW, num_classes, num_train, i, j, scores,
                   correct_class_score, margins, nret, vret, caller>>

\* Line 102: margins[np.arange(num_train), y] -= num_margins_gtzero, in place.
VecAdjust ==
    /\ pc = "v_adjust"
    /\ heap' = [heap EXCEPT ![margins] =
                    vec_adjust(@, heap[y].data, num_margins_gtzero)]
    /\ pc' = "v_dot"
    /\ UNCHANGED <<args, loss, dW, num_classes, num_train, i, j, scores,
                   correct_class_score, margins, num_margins_gtzero, nret, vret, caller>>

\* Line 104: dW = np.dot(X.T, margins) binds dW to a new array.
VecDot ==
    /\ pc = "v_dot"
    /\ dW' = NewId(heap)
    /\ heap' = heap @@ (NewId(heap) :> np_dot(Transpose(heap[X]), heap[margins]))
    /\ pc' = "v_mean"
    /\ UNCHANGED <<args, loss, num_classes, num_train, i, j, scores,
                   correct_class_score, margins, num_margins_gtzero, nret, vret, caller>>

\* Line 105: dW /= num_train, in place (NumPy's division: no exception).
VecMean ==
    /\ pc = "v_mean"
    /\ heap' = [heap EXCEPT ![dW] = DivBy(@, num_train)]
    /\ pc' = "v_reg_grad"
    /\ UNCHANGED <<args, loss, dW, num_classes, num_train, i, j, scores,
                   correct_class_score, margins, num_margins_gtzero, nret, vret, caller>>

\* Line 106: dW += 2 * reg * W, in place.
VecRegGrad ==
    /\ pc = "v_reg_grad"
    /\ heap' = [heap EXCEPT ![dW] = reg_grad(@, reg, heap[W])]
    /\ pc' = "v_return"
    /\ UNCHANGED <<args, loss, dW, num_classes, num_train, i, j, scores,
                   correct_class_score, margins, num_margins_gtzero, nret, vret, caller>>

\* Line 125: return loss, dW.
VecReturn ==
    /\ pc = "v_return"
    /\ vret' = [status |-> "returned", loss |-> loss, dW |-> dW]
    /\ pc' = "idle"
    /\ PopFrame
    /\ UNCHANGED <<heap, args, nret, caller>>

\* ---------------------------------------------------------------- caller
\* With both results in hand the caller reorders its examples by a permutation
\* other than the identity, X[perm] and y[perm] being new arrays, and calls
\* both functions again.
Shuffle ==
    /\ pc = "idle" /\ X0 = NoRef
    /\ nret.status # "none" /\ vret.status # "none"
    /\ perm' \in Perms(Rows(heap[X])) \ {Identity(Rows(heap[X]))}
    /\ X0' = X /\ y0' = y
    /\ nret0' = nret /\ vret0' = vret
    /\ X' = NewId(heap) /\ y' = NewId(heap) + 1
    /\ heap' = heap @@ (NewId(heap) :> Take2(heap[X], perm'))
                    @@ ((NewId(heap) + 1) :> Take1(heap[y], perm'))
    /\ nret' = NoResult /\ vret' = NoResult
    /\ UNCHANGED <<W, reg, pc, loss, dW, num_classes, num_train, i, j, scores,
                   correct_class_score, margins, num_margins_gtzero>>

Next ==
    \/ CallNaive \/ NaiveForI \/ NaiveForJ \/ NaiveMean \/ NaiveReg \/ NaiveReturn
    \/ CallVectorized \/ VecScores \/ VecMargins \/ VecLoss \/ VecReg
    \/ VecBinarize \/ VecCount \/ VecAdjust \/ VecDot \/ VecMean \/ VecRegGrad
    \/ VecReturn
    \/ Shuffle

Spec == Init /\ [][Next]_vars

\* -------------------------------------------------------- reading the state
\* The arguments of the calls, as array values, and their sizes.
Wv == heap[W]
Xv == heap[X]
yd == heap[y].data
NTrain == Rows(heap[X])
NClasses == Cols(heap[W])
NDim == Rows(heap[W])

Returned(r) == r.status = "returned"

Examples == 0..(NTrain - 1)
Classes == 0..(NClasses - 1)
Features == 0..(NDim - 1)

\* The caller has just been handed the result of svm_loss_naive / of
\* svm_loss_vectorized.
NaiveJustReturned == pc = "idle" /\ Returned(nret) /\ vret.status = "none"
VecJustReturned == pc = "idle" /\ Returned(vret)

InNaiveLoop == pc \in {"n_for_i", "n_for_j", "n_mean"}

\* ------------------------------------------- the loss, as the mathematics has it
\* The score of class jj on example ii, the margin of class jj against the
\* correct class, and whether jj violates the margin.
Score(ii, jj) ==
    SumTo([d \in Features |-> float_mul(Xv.data[ii][d], Wv.data[d][jj])], NDim)

Margin(ii, jj) == float_add(float_sub(Score(ii, jj), Score(ii, yd[ii])), One)

Violates(ii, jj) == jj # yd[ii] /\ float_gt(Margin(ii, jj), Zero)

NumViolating(ii) == Cardinality({jj \in Classes : Violates(ii, jj)})

\* The sum of the violating margins over every example and class.
HingeSum ==
    SumTo([ii \in Examples |->
             SumTo([jj \in Classes |->
                      IF Violates(ii, jj) THEN Margin(ii, jj) ELSE Zero],
                   NClasses)],
          NTrain)

\* sum(W * W)
SumSquares ==
    SumTo([d \in Features |->
             SumTo([c \in Classes |-> float_mul(Wv.data[d][c], Wv.data[d][c])],
                   NClasses)],
          NDim)

\* Entry (d, c) of G: every violating pair (ii, jj) adds X[ii] to column jj and
\* subtracts it from column y[ii].
GEntry(d, c) ==
    SumTo([ii \in Examples |->
             SumTo([jj \in Classes |->
                      IF Violates(ii, jj)
                      THEN float_sub(IF c = jj THEN Xv.data[ii][d] ELSE Zero,
                                     IF c = yd[ii] THEN Xv.data[ii][d] ELSE Zero)
                      ELSE Zero],
                   NClasses)],
          NTrain)

ExpectedLoss ==
    float_add(np_true_divide(HingeSum, Int2F(NTrain)), float_mul(reg, SumSquares))

ExpectedGrad(d, c) ==
    float_add(np_true_divide(GEntry(d, c), Int2F(NTrain)),
              float_mul(float_mul(Int2F(2), reg), Wv.data[d][c]))

\* The sum of row d of a D x C matrix over its columns.
RowSum(A, d) == SumTo(A.data[d], Cols(A))

AllZero(A) == \A d \in 0..(Rows(A) - 1), c \in 0..(Cols(A) - 1) : A.data[d][c] = Zero

AllNaN(A) == \A d \in 0..(Rows(A) - 1), c \in 0..(Cols(A) - 1) : IsNaN(A.data[d][c])

SomeMarginZero == \E ii \in Examples, jj \in Classes : jj # yd[ii] /\ Margin(ii, jj) = Zero
SomeViolation == \E ii \in Examples, jj \in Classes : Violates(ii, jj)
SomeNonViolation == \E ii \in Examples, jj \in Classes : jj # yd[ii] /\ ~Violates(ii, jj)
NoViolation == \A ii \in Examples, jj \in Classes : ~Violates(ii, jj)

C1_AllPositive ==
    /\ Returned(nret) /\ Returned(vret) /\ NClasses >= 2
    /\ \A ii \in Examples, jj \in Classes : jj # yd[ii] => Violates(ii, jj)

\* The input of C2: W = [[1,0,0],[0,1,0]], X = [[1,1]], y = [0], reg = 0.
IsScenario ==
    /\ Wv = [shape |-> <<2, 3>>,
             data |-> (0 :> (0 :> One @@ 1 :> Zero @@ 2 :> Zero)
                       @@ 1 :> (0 :> Zero @@ 1 :> One @@ 2 :> Zero))]
    /\ Xv = [shape |-> <<1, 2>>, data |-> (0 :> (0 :> One @@ 1 :> One))]
    /\ yd = (0 :> 0)
    /\ reg = Zero

\* dW = [[-1,1,0],[-1,1,0]]
ScenarioGrad ==
    [shape |-> <<2, 3>>,
     data |-> (0 :> (0 :> Int2F(0 - 1) @@ 1 :> One @@ 2 :> Zero)
               @@ 1 :> (0 :> Int2F(0 - 1) @@ 1 :> One @@ 2 :> Zero))]

\* C2: on the scenario input both functions return loss 1 and
\* dW = [[-1,1,0],[-1,1,0]]; class 1 (margin 1) counts, class 2 (margin 0) does not.
C2_Scenario ==
    IsScenario =>
        /\ Margin(0, 1) = One /\ Margin(0, 2) = Zero
        /\ Returned(nret) => nret.loss = One /\ heap[nret.dW] = ScenarioGrad
        /\ Returned(vret) => vret.loss = One /\ heap[vret.dW] = ScenarioGrad
        /\ nret.status \in {"none", "returned"}
        /\ vret.status \in {"none", "returned"}

\* C2 witness: both functions have returned on the scenario input.
C2_Witness == IsScenario /\ Returned(nret) /\ Returned(vret)

\* C3: svm_loss_naive returns the mean of the violating margins plus
\* reg * sum(W*W), and the mean of G plus 2*reg*W, pairs with margin <= 0 and
\* the pair j = y[i] adding nothing.
C3_NaiveClosedForm ==
    NaiveJustReturned =>
        /\ nret.loss = ExpectedLoss
        /\ heap[nret.dW].shape = Wv.shape
        /\ \A d \in Features, c \in Classes :
              heap[nret.dW].data[d][c] = ExpectedGrad(d, c)

\* C3 witness: svm_loss_naive has returned on a batch with a violating pair and
\* a pair that does not violate, under a positive reg.
C3_Witness ==
    /\ NaiveJustReturned
    /\ SomeViolation /\ SomeNonViolation
    /\ float_gt(reg, Zero)

C4_WitnessPositive ==
    /\ Returned(nret) /\ Returned(vret)
    /\ float_gt(nret.loss, Zero) /\ float_gt(vret.loss, Zero)

\* What C5 promises of a call that is over: it returned loss 0 and an all-zero
\* gradient.
ReturnedZero(r) ==
    r.status # "none" =>
        /\ Returned(r)
        /\ r.loss = Zero
        /\ AllZero(heap[r.dW])

\* C5 as claimed: with reg = 0 and no margin above 0, whatever the batch, both
\* functions return loss 0 and an all-zero gradient.
C5_AsClaimed ==
    (pc = "idle" /\ reg = Zero /\ NoViolation) =>
        ReturnedZero(nret) /\ ReturnedZero(vret)

\* C5 as amended: with reg = 0 and no margin above 0 on a batch of at least
\* one example, both functions return loss 0 and an all-zero gradient.
C5_PerfectSeparation ==
    (pc = "idle" /\ NTrain >= 1 /\ reg = Zero /\ NoViolation) =>
        ReturnedZero(nret) /\ ReturnedZero(vret)

\* C5 witness: both have returned on a separated batch with a nonzero example
\* and a margin strictly below 0.
C5_Witness ==
    /\ NTrain >= 1 /\ reg = Zero /\ NoViolation /\ NClasses >= 2
    /\ Returned(nret) /\ Returned(vret)
    /\ \E ii \in Examples, jj \in Classes : float_gt(Zero, Margin(ii, jj))

\* C6: after the examples are reordered (rows of X and entries of y by the same
\* permutation) each function returns the loss and the gradient it returned
\* before.
C6_PermutationInvariance ==
    (pc = "idle" /\ X0 # NoRef) =>
        /\ Returned(nret) =>
              /\ Returned(nret0)
              /\ nret.loss = nret0.loss
              /\ heap[nret.dW] = heap[nret0.dW]
        /\ Returned(vret) =>
              /\ Returned(vret0)
              /\ vret.loss = vret0.loss
              /\ heap[vret.dW] = heap[vret0.dW]

\* C6 witness: both have returned on a batch that the reordering changed, with
\* different numbers of violations in its examples.
C6_Witness ==
    /\ X0 # NoRef /\ Returned(nret) /\ Returned(vret)
    /\ heap[X] # heap[X0] /\ heap[y] # heap[y0]
    /\ \E a, b \in Examples : NumViolating(a) # NumViolating(b)

\* The objects a step changes in place.
Touched == {o \in DOMAIN heap : heap'[o] # heap[o]}

\* C7: no step of either call changes W, X or y; in-place updates hit only the
\* arrays bound to dW and margins, which are created inside the call; the
\* gradient handed back is such an array, of W's shape, and is not W.
C7_InputsUntouched ==
    [][/\ heap'[W] = heap[W] /\ heap'[X] = heap[X] /\ heap'[y] = heap[y]
       /\ DOMAIN heap \subseteq DOMAIN heap'
       /\ Touched \subseteq ({dW, margins} \ {W, X, y})
       /\ (dW' # dW /\ dW' # NoRef) => dW' \notin DOMAIN heap
       /\ (margins' # margins /\ margins' # NoRef) => margins' \notin DOMAIN heap
       /\ (nret' # nret /\ Returned(nret')) =>
             /\ nret'.dW = dW /\ nret'.dW \notin {W, X, y}
             /\ heap'[nret'.dW].shape = heap[W].shape
       /\ (vret' # vret /\ Returned(vret')) =>
             /\ vret'.dW = dW /\ vret'.dW \notin {W, X, y, nret.dW}
             /\ heap'[vret'.dW].shape = heap[W].shape
      ]_vars

\* C7 witness: both calls have handed back a gradient with a nonzero entry,
\* under a positive reg and a nonzero W.
C7_Witness ==
    /\ Returned(nret) /\ Returned(vret)
    /\ ~AllZero(heap[nret.dW]) /\ ~AllZero(Wv) /\ float_gt(reg, Zero)
    /\ SomeViolation

\* C8: on an empty batch each function fails with a division by zero and hands
\* nothing back.
C8_BothRaise ==
    NTrain = 0 =>
        /\ nret.status \in {"none", "ZeroDivisionError"}
        /\ vret.status \in {"none", "ZeroDivisionError"}

\* What the code does on an empty batch: svm_loss_naive fails with a division
\* by zero; svm_loss_vectorized does not fail, it returns the loss nan and a
\* gradient of W's shape whose every entry is nan.
EmptyBatchBehaviour ==
    NTrain = 0 =>
        /\ nret.status \in {"none", "ZeroDivisionError"}
        /\ vret.status \in {"none", "returned"}
        /\ Returned(vret) =>
              /\ IsNaN(vret.loss)
              /\ heap[vret.dW].shape = Wv.shape
              /\ AllNaN(heap[vret.dW])

\* Both calls on an empty batch are over.
EmptyBatchDone ==
    /\ NTrain = 0
    /\ nret.status = "ZeroDivisionError"
    /\ Returned(vret)

RowsCancel(r) ==
    Returned(r) =>
        \A d \in Features :
            /\ RowSum(heap[r.dW], d) =
                   float_mul(float_mul(Int2F(2), reg), RowSum(Wv, d))
            /\ reg = Zero => RowSum(heap[r.dW], d) = Zero

\* C10: the data part of the gradient sums to 0 over the classes: in
\* svm_loss_naive after every pass of the inner loop, and in what either
\* function returns the sum over the classes of row d is 2*reg times the sum
\* of row d of W (0 when reg = 0).
C10_ColumnsCancel ==
    /\ InNaiveLoop => \A d \in Features : RowSum(heap[dW], d) = Zero
    /\ NaiveJustReturned => RowsCancel(nret)
    /\ VecJustReturned => RowsCancel(vret)

\* C10 on batches of at least one example.
ColumnsCancelNonEmpty ==
    /\ InNaiveLoop => \A d \in Features : RowSum(heap[dW], d) = Zero
    /\ NaiveJustReturned => RowsCancel(nret)
    /\ (VecJustReturned /\ NTrain >= 1) => RowsCancel(vret)

\* Inside the loops of svm_loss_naive with a nonzero gradient accumulated.
InLoopNonZero ==
    /\ pc = "n_for_j" /\ j >= 1
    /\ ~AllZero(heap[dW])

\* Both have returned a gradient with nonzero row sums.
ReturnedNonZeroRows ==
    /\ VecJustReturned /\ Returned(nret) /\ NTrain >= 1 /\ SomeViolation
    /\ \E d \in Features : RowSum(heap[vret.dW], d) # Zero

====
